---- MODULE Spec2Model ----
(***************************************************************************)
(* State-machine model of speedtest_monitor.py: module-level               *)
(* configuration, init_database, run_speedtest, main's scheduler loop and  *)
(* the __main__ exception handlers.  The external collaborators            *)
(* (speedtest capability, psycopg2 connection, schedule job, stdout) are   *)
(* modelled by the outcomes of the calls the program makes on them: a call *)
(* returns or raises; print raises OSError when the output cannot be       *)
(* written, or returns while its text waits in a buffer whose final flush  *)
(* fails.  An interrupt signal can arrive at every position, the handlers  *)
(* included, and more than once.  The loop of main has no end: the state   *)
(* space is finite because the store refuses records beyond MaxRows and    *)
(* the history counts cycles no further than MaxCounted.                   *)
(***************************************************************************)
EXTENDS Integers, Sequences, FiniteSets, TLC

\* ---------------------------------------------------------------- bounds
MaxPrior == 1       \* records left in the store by earlier runs
MaxRows == 2        \* records the table has room for
MaxCounted == 2     \* the history counts cycles up to this number

\* ------------------------------------------------------- environment values
\* a Python value that is None or a string; a string is the sequence of the
\* Unicode code points of its characters
None == [isNone |-> TRUE, val |-> <<>>]

Str(s) == [isNone |-> FALSE, val |-> s]

\* DB_PASSWORD unset, "" and "pw"
PasswordValues == { None, Str(<<>>), Str(<<112, 119>>) }

\* TEST_INTERVAL unset, a no-break space, a vertical tab, "+", the
\* Arabic-Indic digit two and a newline, "-1" and "abc"
IntervalValues == { None, Str(<<160, 11, 43, 1634, 10>>), Str(<<45, 49>>),
                    Str(<<97, 98, 99>>) }

\* default of os.getenv("TEST_INTERVAL", "30")
DefaultInterval == Str(<<51, 48>>)

\* os.getenv(name, default): the variable's value, the default when unset
getenv(raw, default) == IF raw.isNone THEN default ELSE raw

\* the digit zero of every Unicode decimal-digit block (Unicode 14.0); the
\* ten digits of a block follow each other
DigitZeros ==
    {48, 1632, 1776, 1984, 2406, 2534, 2662, 2790, 2918, 3046, 3174, 3302,
     3430, 3558, 3664, 3792, 3872, 4160, 4240, 6112, 6160, 6470, 6608, 6784,
     6800, 6992, 7088, 7232, 7248, 42528, 43216, 43264, 43472, 43504, 43600,
     44016, 65296, 66720, 68912, 69734, 69872, 69942, 70096, 70384, 70736,
     70864, 71248, 71360, 71472, 71904, 72016, 72784, 73040, 73120, 92768,
     92864, 93008, 120782, 120792, 120802, 120812, 120822, 123200, 123632,
     125264, 130032}

IsDigit(c) == \E z \in DigitZeros : c >= z /\ c <= z + 9

DigitValue(c) == c - (CHOOSE z \in DigitZeros : c >= z /\ c <= z + 9)

\* the blanks int() skips before and after the number: tab, newline,
\* vertical tab, form feed, carriage return, space and the Unicode
\* whitespace outside ASCII
Blanks == {9, 10, 11, 12, 13, 32, 133, 160, 5760, 8192, 8193, 8194, 8195, 8196,
           8197, 8198, 8199, 8200, 8201, 8202, 8232, 8233, 8239, 8287, 12288}

RECURSIVE LStrip(_)
LStrip(s) == IF Len(s) > 0 /\ s[1] \in Blanks THEN LStrip(Tail(s)) ELSE s

RECURSIVE RStrip(_)
RStrip(s) ==
    IF Len(s) > 0 /\ s[Len(s)] \in Blanks
    THEN RStrip(SubSeq(s, 1, Len(s) - 1))
    ELSE s

Strip(s) == RStrip(LStrip(s))

\* "+" or "-" in front of the digits
HasSign(s) == Len(s) > 0 /\ s[1] \in {43, 45}

Unsigned(s) == IF HasSign(s) THEN Tail(s) ELSE s

\* decimal digits, with single underscores allowed between two digits
IsDigitString(s) ==
    /\ Len(s) > 0
    /\ \A i \in 1..Len(s) :
         \/ IsDigit(s[i])
         \/ /\ s[i] = 95
            /\ i > 1
            /\ i < Len(s)
            /\ IsDigit(s[i - 1])
            /\ IsDigit(s[i + 1])

\* sys.int_info.default_max_str_digits: int() refuses a longer number
MaxStrDigits == 4300

DigitCount(s) == Cardinality({i \in 1..Len(s) : IsDigit(s[i])})

\* int(s) accepts blanks, an optional sign, then digits; it raises
\* ValueError on anything else
IsIntLiteral(v) ==
    /\ ~v.isNone
    /\ IsDigitString(Unsigned(Strip(v.val)))
    /\ DigitCount(v.val) <= MaxStrDigits

RECURSIVE DigitsToInt(_)
DigitsToInt(s) ==
    IF Len(s) = 0 THEN 0
    ELSE IF s[Len(s)] = 95 THEN DigitsToInt(SubSeq(s, 1, Len(s) - 1))
    ELSE 10 * DigitsToInt(SubSeq(s, 1, Len(s) - 1)) + DigitValue(s[Len(s)])

int(v) ==
    LET s == Strip(v.val) IN
    IF HasSign(s) /\ s[1] = 45
    THEN 0 - DigitsToInt(Unsigned(s))
    ELSE DigitsToInt(Unsigned(s))

\* `not DB_PASSWORD`: None and the empty string are falsy
PasswordMissingNoneOnly(p) == p.isNone

PasswordMissing(p) == p.isNone \/ Len(p.val) = 0

\* ------------------------------------------------------------- the store
TableName == "speed_tests"

IndexName == "idx_speed_tests_timestamp"

EmptyStore == [tables |-> {}, indexes |-> {}, rows |-> <<>>]

\* a record written by an earlier run
PriorRow == [download_mbps |-> 5000, upload_mbps |-> 1000, ping_ms |-> 2000,
             server_name |-> "OLD", server_location |-> "OLD, US",
             server_sponsor |-> "OldISP"]

RECURSIVE PriorRows(_)
PriorRows(n) == IF n = 0 THEN <<>> ELSE Append(PriorRows(n - 1), PriorRow)

\* stores the process can be started against: never initialised, or
\* initialised by earlier runs that left 0..MaxPrior records
InitialStores ==
    {EmptyStore} \cup
    { [tables |-> {TableName}, indexes |-> {IndexName}, rows |-> PriorRows(n)] :
        n \in 0..MaxPrior }

\* effects of the open transaction, not yet committed
NoTxn == [tables |-> {}, indexes |-> {}, rows |-> <<>>]

\* CREATE TABLE without IF NOT EXISTS: fails on an existing table
CreateTablePlain(st, tx) ==
    IF TableName \in st.tables \cup tx.tables
    THEN [err |-> TRUE, txn |-> tx]
    ELSE [err |-> FALSE, txn |-> [tx EXCEPT !.tables = @ \cup {TableName}]]

\* CREATE TABLE IF NOT EXISTS speed_tests
CreateTableIfNotExists(st, tx) ==
    IF TableName \in st.tables \cup tx.tables
    THEN [err |-> FALSE, txn |-> tx]
    ELSE [err |-> FALSE, txn |-> [tx EXCEPT !.tables = @ \cup {TableName}]]

\* CREATE INDEX IF NOT EXISTS idx_speed_tests_timestamp ON speed_tests
CreateIndexIfNotExists(st, tx) ==
    IF TableName \notin st.tables \cup tx.tables
    THEN [err |-> TRUE, txn |-> tx]
    ELSE IF IndexName \in st.indexes \cup tx.indexes
    THEN [err |-> FALSE, txn |-> tx]
    ELSE [err |-> FALSE, txn |-> [tx EXCEPT !.indexes = @ \cup {IndexName}]]

\* commit that replaces the table's rows by those of the transaction
CommitReplacesRows(st, tx) ==
    [tables |-> st.tables \cup tx.tables,
     indexes |-> st.indexes \cup tx.indexes,
     rows |-> tx.rows]

InsertIntoTwice(tx, row) == [tx EXCEPT !.rows = Append(Append(@, row), row)]

\* INSERT INTO speed_tests ... VALUES (...): one new row in the transaction
InsertInto(tx, row) == [tx EXCEPT !.rows = Append(@, row)]

\* db_conn.commit(): the transaction's effects become durable
Commit(st, tx) ==
    [tables |-> st.tables \cup tx.tables,
     indexes |-> st.indexes \cup tx.indexes,
     rows |-> st.rows \o tx.rows]

\* ------------------------------------------------- measurement values
\* st.results.server: a dict; keys lists the keys it holds
NoServerInfo == [keys |-> {}, name |-> "", country |-> "", sponsor |-> ""]

ServerInfos ==
    { [keys |-> {"name", "country", "sponsor"},
       name |-> "NYC1", country |-> "US", sponsor |-> "ExampleISP"],
      [keys |-> {"name", "sponsor"},
       name |-> "NYC1", country |-> "", sponsor |-> "ExampleISP"],
      NoServerInfo }

\* what the capability measures on a line: st.download() and st.upload()
\* in bits per second, st.results.ping in thousandths of a millisecond
Measurements ==
    { [download |-> 93450000, upload |-> 11200000, ping |-> 14700],
      [download |-> 12345678, upload |-> 2675000, ping |-> 14700] }

\* st.download() on one of these lines
DownloadSamples == { m.download : m \in Measurements }

\* st.upload() on the line that gave the download rate d
UploadSamples(d) == { m.upload : m \in { x \in Measurements : x.download = d } }

\* st.results.ping on the line that gave the rates d and u
PingSamples(d, u) ==
    { m.ping : m \in { x \in Measurements : x.download = d /\ x.upload = u } }

\* minutes a download test takes before it returns or raises
DownloadMinutes == {1}

\* ------------------------------------------------- float arithmetic
\* bits in the mantissa of a Python float (IEEE 754 double)
MantissaBits == 53

RECURSIVE BitLength(_)
BitLength(q) == IF q = 0 THEN 0 ELSE 1 + BitLength(q \div 2)

\* long division of r / d (r < d): remainder and last quotient bit after
\* k more bits
RECURSIVE DivideBits(_, _, _, _)
DivideBits(r, d, k, last) ==
    IF k = 0 THEN [rem |-> r, last |-> last]
    ELSE DivideBits((2 * r) % d, d, k - 1, (2 * r) \div d)

\* the same for a quotient below 1: the mantissa starts at the first 1 bit
RECURSIVE DivideFraction(_, _)
DivideFraction(r, d) ==
    IF 2 * r >= d THEN DivideBits(2 * r - d, d, MantissaBits - 1, 1)
    ELSE DivideFraction(2 * r, d)

\* the float n / d (round to nearest, ties to even) compared with the
\* exact quotient: -1 when the float is below it, 0 when equal, 1 when above
FloatError(n, d) ==
    LET q == n \div d
        s == IF q > 0
             THEN DivideBits(n % d, d, MantissaBits - BitLength(q), q % 2)
             ELSE IF n % d = 0 THEN [rem |-> 0, last |-> 0]
             ELSE DivideFraction(n % d, d)
    IN IF s.rem = 0 THEN 0
       ELSE IF 2 * s.rem > d \/ (2 * s.rem = d /\ s.last = 1) THEN 1
       ELSE -1

round2_truncates(n, c) == n \div c

\* round(x, 2) in hundredths, for the float x = n / (100 * c): the
\* hundredth nearest to the value the float holds; on a decimal tie the
\* float is above or below the tie unless it is exact (ties to even)
round2(n, c) ==
    LET q == n \div c
        r == n % c
        e == FloatError(n, 100 * c)
        up == IF 2 * r # c THEN 2 * r > c
              ELSE e > 0 \/ (e = 0 /\ q % 2 = 1)
    IN IF up THEN q + 1 ELSE q

\* hundredths of a Mbps: round(bps / 1_000_000, 2)
MbpsHundredths(bps) == round2(bps, 10000)

\* hundredths of a ms: round(ping, 2)
PingHundredths(p) == round2(p, 10)

\* the tuple bound to the INSERT (lines 122-129); needs all three keys
Row(c) ==
    [download_mbps |-> MbpsHundredths(c.download),
     upload_mbps |-> MbpsHundredths(c.upload),
     ping_ms |-> PingHundredths(c.ping),
     server_name |-> c.server_info.name,
     server_location |-> c.server_info.name \o ", " \o c.server_info.country,
     server_sponsor |-> c.server_info.sponsor]

\* ------------------------------------------------------------ the state
VARIABLES
    env,            \* process environment: [DB_PASSWORD, TEST_INTERVAL]
    pc,             \* position of the single thread of control
    exitStatus,     \* process exit status, -1 while running
    TEST_INTERVAL,  \* module global, 0 before line 21 has run
    db_conn,        \* module global: "None" or "conn"
    connStatus,     \* state of the psycopg2 connection
    store,          \* committed content of the database
    txn,            \* effects of the open transaction
    cyc,            \* locals and progress of the current run_speedtest call
    sched,          \* the schedule job: [armed, remaining]
    logged,         \* startup, warning, error and shutdown messages handed to
                    \* the output so far (stdout, tracebacks on stderr)
    hist            \* history of the run

vars == <<env, pc, exitStatus, TEST_INTERVAL, db_conn, connStatus, store, txn,
          cyc, sched, logged, hist>>

\* exceptions by the handler that catches them; OSError is what print
\* raises when the output cannot be written
ExcKinds == {"ConfigRetrievalError", "Exception", "OSError", "KeyboardInterrupt"}

\* the module-level statements before main(): lines 16-21, 24-25, 26
ConfigPcs == {"config", "config_check", "config_exit"}

\* the try block of init_database
InitTryPcs == {"init_connect", "init_assign", "init_connected", "init_table",
               "init_index", "init_commit", "init_committed"}

\* init_database: its try block and its handler (lines 66, 67)
InitPcs == InitTryPcs \cup {"init_handler", "init_exit"}

\* the try block of run_speedtest (lines 77-133), one position for each
\* call whose outcome the cycle records: lines 79-80, 83-85, 86, 88, 89,
\* 92-93, 94, 95, 98-99, 102-103, 106, 109-112, 115-130, 131, 133
CycleTryPcs == {"cycle_init", "cycle_servers", "cycle_found", "cycle_warn",
                "cycle_warn2", "cycle_best", "cycle_server", "cycle_meta",
                "cycle_download", "cycle_upload", "cycle_ping", "cycle_results",
                "cycle_insert", "cycle_commit", "cycle_written"}

\* the handlers of run_speedtest: line 136 or 138, and line 139
CycleHandlerPcs == {"cycle_handler", "cycle_handler2"}

\* run_speedtest from its call to its return: the header (lines 72-75,
\* before the try block), the try block, the handlers and the return
CyclePcs == {"cycle_header"} \cup CycleTryPcs \cup CycleHandlerPcs
            \cup {"cycle_return"}

LoopPcs == {"arm", "announce", "run_pending", "sleep"}

\* positions inside `try: main()`
MainPcs == {"main_banner", "startup_cycle"} \cup InitPcs \cup CyclePcs \cup LoopPcs

\* the handlers of __main__: lines 175, 176-177, 178 and lines 180, 181
ShutdownPcs == {"shutdown_print", "shutdown_close", "shutdown_exit"}

FatalPcs == {"fatal_print", "fatal_exit"}

HandlerPcs == ShutdownPcs \cup FatalPcs

StepNames == {"init", "servers", "best", "meta", "download", "upload", "ping",
              "insert", "commit"}

NoCycle == [caller |-> "none", done |-> FALSE,
            steps |-> [n \in StepNames |-> "todo"],
            server_info |-> NoServerInfo, download |-> 0, upload |-> 0,
            ping |-> 0, elapsed |-> 0,
            dbFault |-> "none", rowsBefore |-> 0, exc |-> "none"]

\* a history counter one further, counted up to MaxCounted
CountUp(n) == IF n < MaxCounted THEN n + 1 ELSE n

\* open: calls of run_speedtest that have not returned; raisedAt: where the
\* exception that reached __main__ was raised
NoHistory == [cyclesStarted |-> 0, cyclesOk |-> 0, cyclesDone |-> 0, open |-> 0,
              connects |-> 0, closes |-> 0, ddl |-> 0, slept |-> FALSE,
              schemaDone |-> FALSE, interruptedAt |-> "none", interrupts |-> 0,
              mainExc |-> "none", raisedAt |-> "none",
              exitCause |-> "none", exitKind |-> "none", initFault |-> "none",
              writeFailed |-> FALSE, connLost |-> FALSE, rows0 |-> 0,
              sinceDone |-> 0]

Init ==
    /\ env \in [DB_PASSWORD : PasswordValues, TEST_INTERVAL : IntervalValues]
    /\ pc = "config"
    /\ exitStatus = -1
    /\ TEST_INTERVAL = 0
    /\ db_conn = "None"
    /\ connStatus = "none"
    /\ store \in InitialStores
    /\ txn = NoTxn
    /\ cyc = NoCycle
    /\ sched = [armed |-> FALSE, remaining |-> 0]
    /\ logged = {}
    /\ hist = [NoHistory EXCEPT !.rows0 = Len(store.rows)]

\* ------------------------------------------------------------- messages
MsgTraceback == "Traceback: ValueError"

\* traceback of an OSError that print raised and no handler caught; the
\* traceback of an exception that escapes a handler shows the handled one too
MsgTracebackOutput == "Traceback: OSError"

MsgMissingPassword == "ERROR: Missing required environment variable: DB_PASSWORD"

MsgConnected == "Connected to PostgreSQL"

MsgSchema == "Database schema initialized"

MsgConnectFailed == "ERROR: Failed to connect to PostgreSQL"

MsgServerListWarning == "Warning: Could not get server list"

MsgConfigRetrieval == "ERROR: Failed to retrieve speed test configuration"

MsgTestFailed == "ERROR: Speed test failed"

MsgShutdown == "Shutting down gracefully..."

MsgFatal == "FATAL ERROR"

\* ------------------------------------------------------ exception handlers
\* `except Exception` catches every Exception subclass, not KeyboardInterrupt
IsException(kind) == kind \in {"ConfigRetrievalError", "Exception", "OSError"}

init_database_catches_nothing(kind) == FALSE

\* init_database: except Exception (line 65)
init_database_catches(kind) == IsException(kind)

\* exit status passed to sys.exit by init_database's handler (line 67)
InitFailStatus == 1

\* run_speedtest, inner handler around st.get_servers(): except Exception
get_servers_catches(kind) == IsException(kind)

\* run_speedtest, outer handlers: except speedtest.ConfigRetrievalError,
\* except Exception
run_speedtest_catches_config_only(kind) == kind = "ConfigRetrievalError"

run_speedtest_catches(kind) == IsException(kind)

\* message printed by the outer handler that catches the exception
CycleErrorMsg(kind) ==
    IF kind = "ConfigRetrievalError" THEN MsgConfigRetrieval ELSE MsgTestFailed

\* ---------------------------------------------------- the end of the process
\* status of a process whose final flush of stdout fails: print returned
\* while the text sat in the buffer, and the interpreter cannot write it out
FlushFailStatus == 120

\* status of a process ended by a KeyboardInterrupt that nothing catches
SigintStatus == 130

\* the interpreter ends with `status`: sys.exit(status), or status 1 after
\* the traceback of an exception nothing catches.  stdout is flushed first;
\* when output is pending and the flush fails the status is 120 instead.
Exit(status, cause, kind, lg, pending) ==
    \E flushed \in BOOLEAN :
      /\ ~pending => flushed
      /\ pc' = "exited"
      /\ exitStatus' = IF flushed THEN status ELSE FlushFailStatus
      /\ logged' = lg
      /\ hist' = [hist EXCEPT !.exitCause = cause, !.exitKind = kind]
      /\ txn' = NoTxn    \* the server discards uncommitted work of an ended session
      /\ UNCHANGED <<env, TEST_INTERVAL, db_conn, connStatus, store, cyc, sched>>

\* a KeyboardInterrupt outside `try: main()` or inside a handler of
\* __main__: nothing catches it and the process ends by the signal
ExitBySignal(h, lg) ==
    /\ pc' = "exited"
    /\ exitStatus' = SigintStatus
    /\ logged' = lg
    /\ hist' = [h EXCEPT !.exitCause = "interrupt_unhandled",
                         !.exitKind = "KeyboardInterrupt"]
    /\ txn' = NoTxn
    /\ UNCHANGED <<env, TEST_INTERVAL, db_conn, connStatus, store, cyc, sched>>

\* history after one more interrupt signal
Interrupted(h) ==
    [h EXCEPT !.interruptedAt = IF @ = "none" THEN pc ELSE @,
              !.interrupts = @ + 1]

\* ------------------------------------------------------------- __main__
\* lines 174, 179: an exception leaves main() and enters the handler that
\* matches it; h and lg are the history and the messages it leaves
MainRaise(kind, h, lg) ==
    /\ pc' = IF kind = "KeyboardInterrupt" THEN "shutdown_print" ELSE "fatal_print"
    /\ hist' = [h EXCEPT !.mainExc = kind, !.raisedAt = pc]
    /\ logged' = lg
    /\ UNCHANGED <<env, exitStatus, TEST_INTERVAL, db_conn, store>>

\* statuses the two handlers of __main__ pass to sys.exit (lines 178, 181)
MainExitStatusAlwaysOne(kind) == 1

MainExitStatus(kind) == IF kind = "KeyboardInterrupt" THEN 0 ELSE 1

\* line 176: if db_conn
MainCloses(conn) == conn # "None"

\* line 175: print("Shutting down gracefully..."); an OSError raised
\* here, inside the handler, is caught by nothing
ShutdownPrint ==
    /\ pc = "shutdown_print"
    /\ \E printed \in BOOLEAN :
         IF printed
         THEN /\ logged' = logged \cup {MsgShutdown}
              /\ pc' = "shutdown_close"
              /\ UNCHANGED <<env, exitStatus, TEST_INTERVAL, db_conn, connStatus,
                             store, txn, cyc, sched, hist>>
         ELSE Exit(1, "unhandled", "OSError", logged \cup {MsgTracebackOutput}, TRUE)

\* lines 176-177: if db_conn: db_conn.close()
ShutdownClose ==
    /\ pc = "shutdown_close"
    /\ pc' = "shutdown_exit"
    /\ IF MainCloses(db_conn)
       THEN /\ connStatus' = "closed"
            /\ txn' = NoTxn
            /\ hist' = [hist EXCEPT !.closes = @ + 1]
       ELSE UNCHANGED <<connStatus, txn, hist>>
    /\ UNCHANGED <<env, exitStatus, TEST_INTERVAL, db_conn, store, cyc, sched,
                   logged>>

\* line 178: sys.exit(0)
ShutdownExit ==
    /\ pc = "shutdown_exit"
    /\ Exit(MainExitStatus("KeyboardInterrupt"), "interrupt", "KeyboardInterrupt",
            logged, TRUE)

\* line 180: print(f"\nFATAL ERROR: {e}")
FatalPrint ==
    /\ pc = "fatal_print"
    /\ \E printed \in BOOLEAN :
         IF printed
         THEN /\ logged' = logged \cup {MsgFatal}
              /\ pc' = "fatal_exit"
              /\ UNCHANGED <<env, exitStatus, TEST_INTERVAL, db_conn, connStatus,
                             store, txn, cyc, sched, hist>>
         ELSE Exit(1, "unhandled", "OSError", logged \cup {MsgTracebackOutput}, TRUE)

\* line 181: sys.exit(1)
FatalExit ==
    /\ pc = "fatal_exit"
    /\ Exit(MainExitStatus(hist.mainExc), "fatal", hist.mainExc, logged, TRUE)

\* ------------------------------------------- module-level configuration
\* lines 16-21: read the environment; int() raises ValueError outside any
\* try block, before anything was printed
LoadConfig ==
    /\ pc = "config"
    /\ LET raw == getenv(env.TEST_INTERVAL, DefaultInterval) IN
       IF ~IsIntLiteral(raw)
       THEN Exit(1, "config_value", "ValueError", logged \cup {MsgTraceback}, FALSE)
       ELSE /\ TEST_INTERVAL' = int(raw)
            /\ pc' = "config_check"
            /\ UNCHANGED <<env, exitStatus, db_conn, connStatus, store, txn, cyc,
                           sched, logged, hist>>

\* lines 24-25: if not DB_PASSWORD: print(...); a print that raises is not
\* handled.  Line 29 sets db_conn = None before main() is called.
ValidateConfig ==
    /\ pc = "config_check"
    /\ IF PasswordMissing(env.DB_PASSWORD)
       THEN \E printed \in BOOLEAN :
              IF printed
              THEN /\ logged' = logged \cup {MsgMissingPassword}
                   /\ pc' = "config_exit"
                   /\ UNCHANGED <<env, exitStatus, TEST_INTERVAL, db_conn,
                                  connStatus, store, txn, cyc, sched, hist>>
              ELSE Exit(1, "unhandled", "OSError",
                        logged \cup {MsgTracebackOutput}, TRUE)
       ELSE /\ pc' = "main_banner"
            /\ UNCHANGED <<env, exitStatus, TEST_INTERVAL, db_conn, connStatus,
                           store, txn, cyc, sched, logged, hist>>

\* line 26: sys.exit(1)
ConfigExit ==
    /\ pc = "config_exit"
    /\ Exit(1, "config_missing", "SystemExit", logged, TRUE)

\* SIGINT while the module-level code runs: KeyboardInterrupt is raised
\* outside `try: main()`
InterruptAtImport ==
    /\ pc \in ConfigPcs
    /\ ExitBySignal(Interrupted(hist), logged)

\* ------------------------------------------------------------------ main
AfterBannerCycleFirst == "startup_cycle"

\* lines 152-153: init_database() is the first call main makes
AfterBanner == "init_connect"

\* lines 144-150: the banner; print raises OSError when the output cannot
\* be written
MainBanner ==
    /\ pc = "main_banner"
    /\ \E ok \in BOOLEAN :
         IF ok
         THEN /\ pc' = AfterBanner
              /\ UNCHANGED <<env, exitStatus, TEST_INTERVAL, db_conn, store,
                             logged, hist>>
         ELSE MainRaise("OSError", hist, logged)
    /\ UNCHANGED <<connStatus, txn, sched, cyc>>

\* -------------------------------------------------------- init_database
\* an exception raised inside init_database's try block
InitRaise(kind, h) ==
    /\ IF init_database_catches(kind)
       THEN /\ pc' = "init_handler"
            /\ hist' = h
            /\ UNCHANGED <<env, exitStatus, TEST_INTERVAL, db_conn, store, logged>>
       ELSE MainRaise(kind, h, logged)
    /\ UNCHANGED <<txn, sched, cyc>>

\* line 66: print(f"ERROR: Failed to connect to PostgreSQL: {e}"); an
\* OSError raised here leaves init_database
InitHandler ==
    /\ pc = "init_handler"
    /\ \E printed \in BOOLEAN :
         IF printed
         THEN /\ logged' = logged \cup {MsgConnectFailed}
              /\ pc' = "init_exit"
              /\ UNCHANGED <<env, exitStatus, TEST_INTERVAL, db_conn, store, hist>>
         ELSE MainRaise("OSError", hist, logged)
    /\ UNCHANGED <<connStatus, txn, sched, cyc>>

\* line 67: sys.exit(1); SystemExit passes both handlers of __main__
InitExit ==
    /\ pc = "init_exit"
    /\ Exit(InitFailStatus, "storage_init", "SystemExit", logged, TRUE)

DbFaults == {"none", "error"}

\* line 36, the call: psycopg2.connect(...)
InitConnect ==
    /\ pc = "init_connect"
    /\ \E fault \in DbFaults :
         LET h == [hist EXCEPT !.connects = @ + 1, !.initFault = fault] IN
         IF fault = "none"
         THEN /\ connStatus' = "idle"
              /\ hist' = h
              /\ pc' = "init_assign"
              /\ UNCHANGED <<env, exitStatus, TEST_INTERVAL, db_conn, store, txn,
                             sched, cyc, logged>>
         ELSE InitRaise("Exception", h) /\ UNCHANGED connStatus

\* line 36, the assignment: db_conn = <the connection>
InitAssign ==
    /\ pc = "init_assign"
    /\ db_conn' = "conn"
    /\ pc' = "init_connected"
    /\ UNCHANGED <<env, exitStatus, TEST_INTERVAL, connStatus, store, txn, cyc,
                   sched, logged, hist>>

\* a progress line of init_database, printed inside its try block
InitPrint(at, next, msg, done) ==
    /\ pc = at
    /\ \E printed \in BOOLEAN :
         IF printed
         THEN /\ logged' = logged \cup {msg}
              /\ hist' = [hist EXCEPT !.schemaDone = done]
              /\ pc' = next
              /\ UNCHANGED <<env, exitStatus, TEST_INTERVAL, db_conn, store, txn,
                             sched, cyc>>
         ELSE InitRaise("OSError", [hist EXCEPT !.initFault = "output"])
    /\ UNCHANGED connStatus

\* line 43: print("Connected to PostgreSQL at ...")
InitConnected == InitPrint("init_connected", "init_table", MsgConnected, FALSE)

\* a schema statement of init_database: stmt is the statement's effect
InitStatement(at, next, stmt) ==
    /\ pc = at
    /\ \E fault \in DbFaults :
         LET r == stmt
             h == [hist EXCEPT !.ddl = @ + 1, !.initFault = fault]
         IN IF fault = "none" /\ ~r.err
            THEN /\ txn' = r.txn
                 /\ connStatus' = "intrans"
                 /\ hist' = h
                 /\ pc' = next
                 /\ UNCHANGED <<env, exitStatus, TEST_INTERVAL, db_conn, store,
                                sched, cyc, logged>>
            ELSE InitRaise("Exception", h) /\ UNCHANGED connStatus

\* lines 46-58: CREATE TABLE IF NOT EXISTS
InitTable == InitStatement("init_table", "init_index", CreateTableIfNotExists(store, txn))

\* lines 59-62: CREATE INDEX IF NOT EXISTS
InitIndex == InitStatement("init_index", "init_commit", CreateIndexIfNotExists(store, txn))

\* line 63: db_conn.commit()
InitCommit ==
    /\ pc = "init_commit"
    /\ \E fault \in DbFaults :
         LET h == [hist EXCEPT !.initFault = fault] IN
         IF fault = "none"
         THEN /\ store' = Commit(store, txn)
              /\ txn' = NoTxn
              /\ connStatus' = "idle"
              /\ hist' = h
              /\ pc' = "init_committed"
              /\ UNCHANGED <<env, exitStatus, TEST_INTERVAL, db_conn, sched, cyc,
                             logged>>
         ELSE InitRaise("Exception", h) /\ UNCHANGED connStatus

\* line 64: print("Database schema initialized"), then init_database returns
InitCommitted == InitPrint("init_committed", "startup_cycle", MsgSchema, TRUE)

\* --------------------------------------------------------- run_speedtest
\* line 70: run_speedtest is called, by main or by the schedule job; its
\* locals are fresh and the header is its first position
StartCycle(caller) ==
    /\ cyc' = [NoCycle EXCEPT !.caller = caller, !.rowsBefore = Len(store.rows)]
    /\ hist' = [hist EXCEPT !.cyclesStarted = CountUp(@), !.open = @ + 1]
    /\ pc' = "cycle_header"
    /\ UNCHANGED <<env, exitStatus, TEST_INTERVAL, db_conn, connStatus, store,
                   txn, sched, logged>>

\* lines 156-157: main announces the first test and calls run_speedtest()
StartupCycle ==
    /\ pc = "startup_cycle"
    /\ \E announced \in BOOLEAN :
         IF announced
         THEN StartCycle("startup")
         ELSE /\ MainRaise("OSError", hist, logged)
              /\ UNCHANGED <<connStatus, txn, sched, cyc>>

\* lines 72-75: the header, printed before the try block: a print that
\* raises here leaves run_speedtest, whose call stays unfinished
CycleHeader ==
    /\ pc = "cycle_header"
    /\ \E printed \in BOOLEAN :
         IF printed
         THEN /\ pc' = "cycle_init"
              /\ UNCHANGED <<env, exitStatus, TEST_INTERVAL, db_conn, store,
                             logged, hist>>
         ELSE MainRaise("OSError", hist, logged)
    /\ UNCHANGED <<connStatus, txn, sched, cyc>>

\* schedule's Job.run after job_func() has returned: next_run = now +
\* interval, however long the job took
Rearm(interval, elapsed) == interval

\* what is left of a call of run_speedtest that has returned: its caller
\* and the time it took; its locals ended with it
Returned(c) == [NoCycle EXCEPT !.caller = c.caller, !.done = TRUE,
                               !.elapsed = c.elapsed]

\* run_speedtest returns to its caller: main (line 157 -> 160) or the
\* schedule job, which re-arms itself and returns to the loop (167 -> 168)
CycleReturn ==
    /\ pc = "cycle_return"
    /\ cyc' = Returned(cyc)
    /\ hist' = [hist EXCEPT !.cyclesDone = CountUp(@), !.open = @ - 1,
                            !.sinceDone = 0]
    /\ IF cyc.caller = "startup"
       THEN pc' = "arm" /\ sched' = sched
       ELSE pc' = "sleep" /\ sched' = [sched EXCEPT !.remaining =
                                          Rearm(TEST_INTERVAL, cyc.elapsed)]
    /\ UNCHANGED <<env, exitStatus, TEST_INTERVAL, db_conn, connStatus, store,
                   txn, logged>>

\* an exception raised in run_speedtest's try block; c, cs, tx, h and lg are
\* the cycle, connection status, transaction, history and messages it leaves
CycleRaise(kind, c, cs, tx, h, lg) ==
    /\ IF run_speedtest_catches(kind)
       THEN /\ pc' = "cycle_handler"
            /\ cyc' = [c EXCEPT !.exc = kind]
            /\ hist' = h
            /\ logged' = lg
            /\ UNCHANGED <<env, exitStatus, TEST_INTERVAL, db_conn, store>>
       ELSE /\ MainRaise(kind, h, lg)
            /\ cyc' = c
    /\ connStatus' = cs
    /\ txn' = tx
    /\ sched' = sched

\* a print inside the try block raised OSError
CyclePrintRaise(c) == CycleRaise("OSError", c, connStatus, txn, hist, logged)

\* a call of the measurement raised
CycleStepRaise(kind, step, c) ==
    CycleRaise(kind, [c EXCEPT !.steps[step] = "fail"], connStatus, txn, hist,
               logged)

\* an exception raised inside the inner try block (lines 85-86): its
\* handler (line 87) takes it, or it goes on to the outer handlers
InnerRaise(kind, c) ==
    IF get_servers_catches(kind)
    THEN /\ pc' = "cycle_warn"
         /\ cyc' = c
         /\ UNCHANGED <<env, exitStatus, TEST_INTERVAL, db_conn, connStatus,
                        store, txn, sched, logged, hist>>
    ELSE CycleRaise(kind, c, connStatus, txn, hist, logged)

\* line 136 or line 138: the first line of the handler that caught the
\* exception; a print that raises here leaves run_speedtest with the
\* OSError.  The ConfigRetrievalError handler ends with this line.
CycleHandler ==
    /\ pc = "cycle_handler"
    /\ \E printed \in BOOLEAN :
         IF printed
         THEN /\ logged' = logged \cup {CycleErrorMsg(cyc.exc)}
              /\ pc' = IF cyc.exc = "ConfigRetrievalError" THEN "cycle_return"
                       ELSE "cycle_handler2"
              /\ UNCHANGED <<env, exitStatus, TEST_INTERVAL, db_conn, store, hist>>
         ELSE MainRaise("OSError", hist, logged)
    /\ UNCHANGED <<connStatus, txn, sched, cyc>>

\* line 139: print(f"Error type: {type(e).__name__}")
CycleHandler2 ==
    /\ pc = "cycle_handler2"
    /\ \E printed \in BOOLEAN :
         IF printed
         THEN /\ pc' = "cycle_return"
              /\ UNCHANGED <<env, exitStatus, TEST_INTERVAL, db_conn, store,
                             logged, hist>>
         ELSE MainRaise("OSError", hist, logged)
    /\ UNCHANGED <<connStatus, txn, sched, cyc>>

\* a step of the measurement that succeeded
CycleStepOk(step, c, next) ==
    /\ cyc' = [c EXCEPT !.steps[step] = "ok"]
    /\ pc' = next
    /\ UNCHANGED <<env, exitStatus, TEST_INTERVAL, db_conn, connStatus, store,
                   txn, sched, logged, hist>>

\* a progress line printed inside the try block
CyclePrint(at, next, msgs) ==
    /\ pc = at
    /\ \E printed \in BOOLEAN :
         IF printed
         THEN /\ logged' = logged \cup msgs
              /\ pc' = next
              /\ UNCHANGED <<env, exitStatus, TEST_INTERVAL, db_conn, connStatus,
                             store, txn, cyc, sched, hist>>
         ELSE CyclePrintRaise(cyc)

\* lines 79-80: print, then st = speedtest.Speedtest()
CycleInit ==
    /\ pc = "cycle_init"
    /\ \E out \in {"ok", "print", "ConfigRetrievalError", "Exception"} :
         IF out = "ok" THEN CycleStepOk("init", cyc, "cycle_servers")
         ELSE IF out = "print" THEN CyclePrintRaise(cyc)
         ELSE CycleStepRaise(out, "init", cyc)

\* line 83: print, before the inner try block; line 85: st.get_servers(),
\* inside it
CycleServers ==
    /\ pc = "cycle_servers"
    /\ \E out \in {"ok", "print", "Exception"} :
         IF out = "ok" THEN CycleStepOk("servers", cyc, "cycle_found")
         ELSE IF out = "print" THEN CyclePrintRaise(cyc)
         ELSE InnerRaise(out, [cyc EXCEPT !.steps["servers"] = "fail"])

\* line 86: print(f"Found {len(st.servers)} servers"), still inside the
\* inner try block
CycleFound ==
    /\ pc = "cycle_found"
    /\ \E printed \in BOOLEAN :
         IF printed
         THEN /\ pc' = "cycle_best"
              /\ UNCHANGED <<env, exitStatus, TEST_INTERVAL, db_conn, connStatus,
                             store, txn, cyc, sched, logged, hist>>
         ELSE InnerRaise("OSError", cyc)

\* line 88: the warning of the inner handler; an OSError raised here is
\* caught by the outer handler
CycleWarn == CyclePrint("cycle_warn", "cycle_warn2", {MsgServerListWarning})

\* line 89: print("Continuing with default configuration...")
CycleWarn2 == CyclePrint("cycle_warn2", "cycle_best", {})

\* lines 92-93: print, then st.get_best_server()
CycleBest ==
    /\ pc = "cycle_best"
    /\ \E out \in {"ok", "print", "Exception"} :
         IF out = "ok" THEN CycleStepOk("best", cyc, "cycle_server")
         ELSE IF out = "print" THEN CyclePrintRaise(cyc)
         ELSE CycleStepRaise(out, "best", cyc)

\* line 94: server_info = st.results.server
CycleServer ==
    /\ pc = "cycle_server"
    /\ \E info \in ServerInfos : cyc' = [cyc EXCEPT !.server_info = info]
    /\ pc' = "cycle_meta"
    /\ UNCHANGED <<env, exitStatus, TEST_INTERVAL, db_conn, connStatus, store,
                   txn, sched, logged, hist>>

\* line 95: the print that reads server_info['sponsor'] and
\* server_info['name']; a missing key raises KeyError
CycleMeta ==
    /\ pc = "cycle_meta"
    /\ IF ~({"sponsor", "name"} \subseteq cyc.server_info.keys)
       THEN CycleStepRaise("Exception", "meta", cyc)
       ELSE \E printed \in BOOLEAN :
              IF printed THEN CycleStepOk("meta", cyc, "cycle_download")
              ELSE CyclePrintRaise([cyc EXCEPT !.steps["meta"] = "ok"])

\* lines 98-99: print, then st.download()
CycleDownload ==
    /\ pc = "cycle_download"
    /\ \E out \in {"ok", "print", "Exception"}, v \in DownloadSamples,
          dur \in DownloadMinutes :
         IF out = "print"
         THEN /\ v = CHOOSE x \in DownloadSamples : TRUE
              /\ dur = CHOOSE x \in DownloadMinutes : TRUE
              /\ CyclePrintRaise(cyc)
         ELSE LET c == [cyc EXCEPT !.elapsed = dur] IN
              IF out = "ok"
              THEN CycleStepOk("download", [c EXCEPT !.download = v], "cycle_upload")
              ELSE /\ v = CHOOSE x \in DownloadSamples : TRUE
                   /\ CycleStepRaise(out, "download", c)

\* lines 102-103: print, then st.upload()
CycleUpload ==
    /\ pc = "cycle_upload"
    /\ \E out \in {"ok", "print", "Exception"}, v \in UploadSamples(cyc.download) :
         IF out = "ok"
         THEN CycleStepOk("upload", [cyc EXCEPT !.upload = v], "cycle_ping")
         ELSE /\ v = CHOOSE x \in UploadSamples(cyc.download) : TRUE
              /\ IF out = "print" THEN CyclePrintRaise(cyc)
                 ELSE CycleStepRaise(out, "upload", cyc)

\* the latency read with its failure swallowed: the cycle goes on
CyclePingSwallows ==
    /\ pc = "cycle_ping"
    /\ \E out \in {"ok", "Exception"}, v \in PingSamples(cyc.download, cyc.upload) :
         IF out = "ok"
         THEN CycleStepOk("ping", [cyc EXCEPT !.ping = v], "cycle_results")
         ELSE /\ v = CHOOSE x \in PingSamples(cyc.download, cyc.upload) : TRUE
              /\ cyc' = [cyc EXCEPT !.steps["ping"] = "fail"]
              /\ pc' = "cycle_results"
              /\ UNCHANGED <<env, exitStatus, TEST_INTERVAL, db_conn,
                             connStatus, store, txn, sched, logged, hist>>

\* line 106: ping = st.results.ping
CyclePing ==
    /\ pc = "cycle_ping"
    /\ \E out \in {"ok", "Exception"}, v \in PingSamples(cyc.download, cyc.upload) :
         IF out = "ok"
         THEN CycleStepOk("ping", [cyc EXCEPT !.ping = v], "cycle_results")
         ELSE /\ v = CHOOSE x \in PingSamples(cyc.download, cyc.upload) : TRUE
              /\ CycleStepRaise(out, "ping", cyc)

\* lines 109-112: the result lines
CycleResults == CyclePrint("cycle_results", "cycle_insert", {})

InsertFaults == {"none", "stmt_error", "connlost"}

\* the table holds as many records as the server has room for: it
\* refuses a further INSERT
StoreFull(st) == Len(st.rows) >= MaxRows

\* what cursor.execute does on a connection in the given status when the
\* server would answer the statement with `fault`
ExecuteOutcome(cs, fault) ==
    IF cs \in {"lost", "closed", "none"} THEN "connlost"
    ELSE IF cs = "inerror" THEN "in_failed_transaction"
    ELSE fault

\* lines 115-130: the parameter tuple, db_conn.cursor(), cursor.execute
CycleInsert ==
    /\ pc = "cycle_insert"
    /\ \E fault \in InsertFaults :
         IF "country" \notin cyc.server_info.keys
         THEN \* KeyError while the tuple is built, before execute
              /\ fault = "none"
              /\ CycleStepRaise("Exception", "insert", cyc)
         ELSE LET out == IF TableName \in store.tables
                         THEN ExecuteOutcome(connStatus, fault)
                         ELSE ExecuteOutcome(connStatus, "stmt_error")
                  c == [cyc EXCEPT !.dbFault = fault, !.steps["insert"] = "fail"]
              IN /\ StoreFull(store) => fault # "none"
                 /\ IF out = "none"
                    THEN /\ cyc' = [cyc EXCEPT !.dbFault = fault,
                                               !.steps["insert"] = "ok"]
                         /\ txn' = InsertInto(txn, Row(cyc))
                         /\ connStatus' = "intrans"
                         /\ pc' = "cycle_commit"
                         /\ UNCHANGED <<env, exitStatus, TEST_INTERVAL, db_conn,
                                        store, sched, logged, hist>>
                    ELSE IF out = "connlost"
                    THEN CycleRaise("Exception", c, "lost", NoTxn,
                                    [hist EXCEPT !.writeFailed = TRUE,
                                                 !.connLost = TRUE],
                                    logged)
                    ELSE CycleRaise("Exception", c, "inerror", txn,
                                    [hist EXCEPT !.writeFailed = TRUE], logged)

\* line 131: db_conn.commit()
CycleCommit ==
    /\ pc = "cycle_commit"
    /\ \E fault \in {"none", "connlost"} :
         LET c == [cyc EXCEPT !.dbFault = fault] IN
         IF fault = "none"
         THEN /\ store' = Commit(store, txn)
              /\ txn' = NoTxn
              /\ connStatus' = "idle"
              /\ cyc' = [c EXCEPT !.steps["commit"] = "ok"]
              /\ hist' = [hist EXCEPT !.cyclesOk = @ + 1]
              /\ pc' = "cycle_written"
              /\ UNCHANGED <<env, exitStatus, TEST_INTERVAL, db_conn, sched, logged>>
         ELSE CycleRaise("Exception", [c EXCEPT !.steps["commit"] = "fail"],
                         "lost", NoTxn,
                         [hist EXCEPT !.writeFailed = TRUE, !.connLost = TRUE],
                         logged)

\* line 133: the success message, the last statement of the try block
CycleWritten == CyclePrint("cycle_written", "cycle_return", {})

\* ------------------------------------------------------- scheduler loop
\* the interval counted in hours
EveryHours(n) == 60 * n

\* line 160: schedule.every(TEST_INTERVAL).minutes: the job's interval in
\* minutes
EveryMinutes(n) == n

\* line 160: ....do(run_speedtest) creates the job, first due one interval
\* from now
Arm ==
    /\ pc = "arm"
    /\ sched' = [armed |-> TRUE, remaining |-> EveryMinutes(TEST_INTERVAL)]
    /\ pc' = "announce"
    /\ UNCHANGED <<env, exitStatus, TEST_INTERVAL, db_conn, connStatus, store,
                   txn, cyc, logged, hist>>

\* lines 162-163: the two prints that follow
Announce ==
    /\ pc = "announce"
    /\ \E printed \in BOOLEAN :
         IF printed
         THEN /\ pc' = "run_pending"
              /\ UNCHANGED <<env, exitStatus, TEST_INTERVAL, db_conn, store,
                             logged, hist>>
         ELSE MainRaise("OSError", hist, logged)
    /\ UNCHANGED <<connStatus, txn, sched, cyc>>

\* schedule's Job.should_run: the job is due when its next_run is not in
\* the future
Due(s) == s.armed /\ s.remaining <= 0

\* line 167: schedule.run_pending() runs the job when it is due
RunPending ==
    /\ pc = "run_pending"
    /\ IF Due(sched)
       THEN StartCycle("scheduler")
       ELSE /\ pc' = "sleep"
            /\ UNCHANGED <<env, exitStatus, TEST_INTERVAL, db_conn, connStatus,
                           store, txn, cyc, sched, logged, hist>>

\* line 168: time.sleep(60), one minute nearer to the job's next_run
Sleep ==
    /\ pc = "sleep"
    /\ sched' = [sched EXCEPT !.remaining = @ - 1]
    /\ hist' = [hist EXCEPT !.slept = TRUE, !.sinceDone = @ + 1]
    /\ pc' = "run_pending"
    /\ UNCHANGED <<env, exitStatus, TEST_INTERVAL, db_conn, connStatus, store,
                   txn, cyc, logged>>

\* ------------------------------------------------------------- interrupt
\* SIGINT while main() runs: KeyboardInterrupt is raised at the current
\* position, whose own call has not completed while every call before it
\* has, and travels through the enclosing handlers to __main__
Interrupt ==
    /\ pc \in MainPcs
    /\ LET h == Interrupted(hist) IN
       IF pc \in CycleTryPcs
       THEN CycleRaise("KeyboardInterrupt", cyc, connStatus, txn, h, logged)
       ELSE IF pc \in InitTryPcs
       THEN InitRaise("KeyboardInterrupt", h) /\ UNCHANGED connStatus
       ELSE /\ MainRaise("KeyboardInterrupt", h, logged)
            /\ UNCHANGED <<connStatus, txn, sched, cyc>>

\* the traceback of a KeyboardInterrupt that escapes the `except Exception`
\* handler shows the OSError being handled
HandledTraceback ==
    IF pc \in FatalPcs /\ hist.mainExc = "OSError" THEN {MsgTracebackOutput}
    ELSE {}

\* SIGINT while a handler of __main__ runs (a second signal in the shutdown
\* handler): nothing catches the KeyboardInterrupt, the handler stops where
\* it is
InterruptInHandler ==
    /\ pc \in HandlerPcs
    /\ ExitBySignal(Interrupted(hist), logged \cup HandledTraceback)

Next ==
    \/ LoadConfig
    \/ ValidateConfig
    \/ ConfigExit
    \/ MainBanner
    \/ InitConnect
    \/ InitAssign
    \/ InitConnected
    \/ InitTable
    \/ InitIndex
    \/ InitCommit
    \/ InitCommitted
    \/ InitHandler
    \/ InitExit
    \/ StartupCycle
    \/ CycleHeader
    \/ CycleInit
    \/ CycleServers
    \/ CycleFound
    \/ CycleWarn
    \/ CycleWarn2
    \/ CycleBest
    \/ CycleServer
    \/ CycleMeta
    \/ CycleDownload
    \/ CycleUpload
    \/ CyclePing
    \/ CycleResults
    \/ CycleInsert
    \/ CycleCommit
    \/ CycleWritten
    \/ CycleHandler
    \/ CycleHandler2
    \/ CycleReturn
    \/ Arm
    \/ Announce
    \/ RunPending
    \/ Sleep
    \/ ShutdownPrint
    \/ ShutdownClose
    \/ ShutdownExit
    \/ FatalPrint
    \/ FatalExit
    \/ InterruptAtImport
    \/ Interrupt
    \/ InterruptInHandler

Spec == Init /\ [][Next]_vars

\* the steps of the program itself, with no interrupt signal delivered: the
\* shutdown handler of __main__ never runs
NextUninterrupted ==
    \/ LoadConfig
    \/ ValidateConfig
    \/ ConfigExit
    \/ MainBanner
    \/ InitConnect
    \/ InitAssign
    \/ InitConnected
    \/ InitTable
    \/ InitIndex
    \/ InitCommit
    \/ InitCommitted
    \/ InitHandler
    \/ InitExit
    \/ StartupCycle
    \/ CycleHeader
    \/ CycleInit
    \/ CycleServers
    \/ CycleFound
    \/ CycleWarn
    \/ CycleWarn2
    \/ CycleBest
    \/ CycleServer
    \/ CycleMeta
    \/ CycleDownload
    \/ CycleUpload
    \/ CyclePing
    \/ CycleResults
    \/ CycleInsert
    \/ CycleCommit
    \/ CycleWritten
    \/ CycleHandler
    \/ CycleHandler2
    \/ CycleReturn
    \/ Arm
    \/ Announce
    \/ RunPending
    \/ Sleep
    \/ FatalPrint
    \/ FatalExit

\* runs without an interrupt in which the single thread keeps taking its
\* next step: every call returns and the loop of main never blocks
LiveSpec == Init /\ [][NextUninterrupted]_vars /\ WF_vars(NextUninterrupted)

\* ================================================================ claims
MeasurementSteps == {"init", "best", "download", "upload", "ping"}

ClaimedSteps == MeasurementSteps \cup {"insert", "commit"}

FullInfo == {"name", "country", "sponsor"}

\* the positions of run_speedtest up to the latency read and its result
\* lines, before the INSERT
MeasurementPcs == {"cycle_header", "cycle_init", "cycle_servers", "cycle_found",
                   "cycle_warn", "cycle_warn2", "cycle_best", "cycle_server",
                   "cycle_meta", "cycle_download", "cycle_upload", "cycle_ping",
                   "cycle_results"}

\* a call of run_speedtest has not returned
InFlight == cyc.caller # "none" /\ ~cyc.done

\* run_speedtest has run its last statement and is about to return
CycleOver == pc = "cycle_return"

MeasurementFailed(c) == \E n \in MeasurementSteps : c.steps[n] = "fail"

\* C1: a cycle adds exactly one record when capability init, best-server
\* selection, download, upload, latency read, INSERT and commit all succeed
\* and none when any of them fails, so the number of records stored by the
\* run equals the number of cycles in which all seven steps succeeded.
C1_OneRecordPerSuccessfulCycle ==
    /\ Len(store.rows) = hist.rows0 + hist.cyclesOk
    /\ InFlight =>
         Len(store.rows) - cyc.rowsBefore =
           (IF \A n \in ClaimedSteps : cyc.steps[n] = "ok" THEN 1 ELSE 0)

C1_Witness ==
    /\ CycleOver
    /\ cyc.caller = "scheduler"
    /\ \A n \in ClaimedSteps : cyc.steps[n] = "ok"
    /\ hist.cyclesOk = 1
    /\ hist.cyclesDone = 1

\* C2: an exception raised by capability init, best-server selection, the
\* download test, the upload test or the latency read is contained in
\* run_speedtest: while no interrupt arrives, the cycle in which the call
\* raised stays inside run_speedtest until it returns; no handler of
\* __main__ and no exit is reached from it.
C2_MeasurementFailureContained ==
    (MeasurementFailed(cyc) /\ hist.interrupts = 0) =>
        pc \in CyclePcs

\* C3: after a write failure the failure is logged and the cycle stores
\* nothing, and every later cycle whose measurement succeeds and whose
\* INSERT the store would accept stores exactly one record on the same
\* connection.
C3_WriteFailureRecovers ==
    /\ (CycleOver /\ (cyc.steps["insert"] = "fail" \/ cyc.steps["commit"] = "fail"))
         => (MsgTestFailed \in logged /\ Len(store.rows) = cyc.rowsBefore)
    /\ (/\ CycleOver
        /\ hist.writeFailed
        /\ ~hist.connLost
        /\ \A n \in MeasurementSteps : cyc.steps[n] = "ok"
        /\ cyc.server_info.keys = FullInfo
        /\ cyc.dbFault = "none"
        /\ cyc.exc # "OSError")
         => Len(store.rows) = cyc.rowsBefore + 1

\* a failure of the download test, the upload test or the latency read
\* ends the cycle before the INSERT, with no record
AbortingStepsStoreNothing ==
    \A n \in {"download", "upload", "ping"} :
        cyc.steps[n] = "fail"
          => /\ pc \notin CycleTryPcs \cup {"cycle_header"}
             /\ Len(store.rows) = cyc.rowsBefore
             /\ cyc.steps["insert"] = "todo"

\* C4: a failure of st.get_servers() does not abort the cycle: while no
\* interrupt arrives the cycle goes from the failed refresh through the
\* warning to best-server selection; a failure of the download test, the
\* upload test or the latency read ends the cycle with no record.
C4_RefreshFailureNotFatal ==
    /\ [][(/\ pc \in {"cycle_servers", "cycle_warn", "cycle_warn2"}
           /\ cyc'.steps["servers"] = "fail"
           /\ hist'.interrupts = 0)
          => pc' \in {"cycle_warn", "cycle_warn2", "cycle_best"}]_vars
    /\ []AbortingStepsStoreNothing

\* C5: with a TEST_INTERVAL that int() accepts and DB_PASSWORD unset or
\* empty the process never leaves the configuration step except to exit
\* non-zero: no connect, no schema statement, no cycle, no record.
C5_MissingPasswordExitsFirst ==
    (/\ env.DB_PASSWORD \in {None, Str(<<>>)}
     /\ IsIntLiteral(getenv(env.TEST_INTERVAL, DefaultInterval)))
      => /\ pc \in ConfigPcs \cup {"exited"}
         /\ pc = "exited" => exitStatus # 0
         /\ hist.connects = 0
         /\ hist.ddl = 0
         /\ hist.cyclesStarted = 0
         /\ db_conn = "None"
         /\ store \in InitialStores
         /\ Len(store.rows) = hist.rows0

C5_Witness ==
    /\ env.DB_PASSWORD = Str(<<>>)
    /\ env.TEST_INTERVAL = Str(<<160, 11, 43, 1634, 10>>)
    /\ TEST_INTERVAL = 2
    /\ pc = "exited"
    /\ exitStatus = 1
    /\ MsgMissingPassword \in logged

\* C6: startup runs configuration, then connect and schema, then one
\* cycle at once, then the scheduler loop: the first cycle starts from
\* main's own call with no sleep taken and no job armed, and a cycle only
\* runs on the one opened connection with the schema committed.
C6_StartupOrder ==
    /\ [](pc \in CyclePcs =>
            /\ db_conn = "conn"
            /\ hist.connects = 1
            /\ hist.ddl = 2
            /\ hist.schemaDone
            /\ TableName \in store.tables
            /\ IndexName \in store.indexes)
    /\ [][(pc' = "cycle_header" /\ pc # "cycle_header" /\ hist.cyclesStarted = 0)
          => (pc = "startup_cycle" /\ ~hist.slept /\ ~sched.armed)]_vars
    /\ [](sched.armed => hist.cyclesDone >= 1)
    /\ [](hist.slept => sched.armed)

C6_Witness ==
    /\ pc = "cycle_header"
    /\ hist.cyclesStarted = 1
    /\ ~hist.slept
    /\ ~sched.armed
    /\ hist.schemaDone

\* C7: an interrupt that arrives in the tick sleep closes the connection
\* and exits with status 0; every cycle started has completed, nothing is
\* left uncommitted and nothing is written afterwards.
C7_InterruptWhileWaiting ==
    (hist.interruptedAt = "sleep" /\ hist.interrupts = 1) =>
        /\ pc \in ShutdownPcs \cup {"exited"}
        /\ cyc.done
        /\ hist.open = 0
        /\ hist.cyclesStarted = hist.cyclesDone
        /\ Len(store.rows) = hist.rows0 + hist.cyclesOk
        /\ pc = "exited" =>
             /\ exitStatus = 0
             /\ connStatus = "closed"
             /\ hist.closes = 1
             /\ txn = NoTxn

\* C8 as stated: when the connect, a schema statement or the schema commit
\* fails, the process logs the cause and exits with a non-zero status; no
\* cycle runs and the store is left as it was found.
C8_StorageInitFailureFatal ==
    hist.initFault = "error" =>
        /\ pc \in {"init_handler", "init_exit"} \cup HandlerPcs \cup {"exited"}
        /\ pc = "exited" => (exitStatus # 0 /\ MsgConnectFailed \in logged)
        /\ hist.cyclesStarted = 0
        /\ store \in InitialStores
        /\ Len(store.rows) = hist.rows0

\* C8 amended: when the connect, a schema statement or the schema commit
\* fails, no cycle runs and the store is left as it was found; unless an
\* interrupt arrives before the process has ended, the process exits with
\* a non-zero status, and the cause is logged unless the print that writes
\* it raises, and then the process ends through the `except Exception`
\* handler of __main__ with the OSError.
C8_StorageInitFailureExits ==
    hist.initFault = "error" =>
        /\ pc \in {"init_handler", "init_exit"} \cup HandlerPcs \cup {"exited"}
        /\ (pc = "exited" /\ hist.interrupts = 0) =>
             /\ exitStatus \in {1, FlushFailStatus}
             /\ \/ /\ MsgConnectFailed \in logged
                   /\ hist.exitCause = "storage_init"
                \/ /\ MsgConnectFailed \notin logged
                   /\ hist.exitKind = "OSError"
                   /\ logged \cap {MsgFatal, MsgTracebackOutput} # {}
        /\ pc \in ShutdownPcs => hist.interrupts > 0
        /\ hist.cyclesStarted = 0
        /\ store \in InitialStores
        /\ Len(store.rows) = hist.rows0

C8_Witness ==
    /\ pc = "exited"
    /\ exitStatus = 1
    /\ hist.initFault = "error"
    /\ hist.exitCause = "storage_init"
    /\ hist.ddl = 2
    /\ db_conn = "conn"
    /\ store = EmptyStore

\* C9 as stated: the exit status is 0 exactly when an interrupt ended the
\* process.
C9_ZeroIffInterrupt ==
    pc = "exited" => (exitStatus = 0 <=> hist.interruptedAt # "none")

\* C9 amended: the exit status is 0 exactly when an interrupt arrived
\* while main() was running and the shutdown handler ran to its
\* sys.exit(0): its print returned, no further interrupt arrived and the
\* final flush of stdout succeeded; it is non-zero for an interrupt during
\* the module-level configuration or inside a handler of __main__, for a
\* missing or malformed setting, for a storage failure at startup, for an
\* error escaping main or raised by the shutdown handler and for a failed
\* final flush; once the scheduler is armed only an interrupt or an
\* escaping OSError ends the process.
C9_ZeroIffInterruptInMain ==
    pc = "exited" =>
        /\ exitStatus = 0 <=> /\ hist.interruptedAt \in MainPcs
                              /\ hist.interrupts = 1
                              /\ MsgShutdown \in logged
                              /\ exitStatus # FlushFailStatus
        /\ hist.exitCause \in {"config_value", "config_missing", "storage_init",
                               "fatal", "unhandled", "interrupt_unhandled"}
             => exitStatus > 0
        /\ hist.exitCause = "interrupt" => exitStatus \in {0, FlushFailStatus}
        /\ sched.armed => (hist.interruptedAt # "none" \/ hist.exitKind = "OSError")

C9_Witness ==
    /\ pc = "exited"
    /\ exitStatus = 0
    /\ hist.interruptedAt = "cycle_download"
    /\ sched.armed

\* C10: the schema step raises no error of its own on an empty store or
\* on one initialised by earlier runs, and leaves exactly the speed_tests
\* table and its timestamp index, with the stored records unchanged.
C10_SchemaIdempotent ==
    /\ [][(pc = "init_commit" /\ pc' = "init_committed")
          => /\ store'.tables = {TableName}
             /\ store'.indexes = {IndexName}
             /\ store'.rows = store.rows]_vars
    /\ [](hist.exitCause = "storage_init" => hist.initFault \in {"error", "output"})
    /\ []((pc \in InitPcs /\ pc # "init_connect") => txn.rows = <<>>)

C10_Witness ==
    /\ pc = "startup_cycle"
    /\ hist.rows0 = MaxPrior
    /\ hist.ddl = 2
    /\ store.tables = {TableName}
    /\ store.indexes = {IndexName}
    /\ store.rows = PriorRows(MaxPrior)

Abs(x) == IF x < 0 THEN -x ELSE x

LastRow == store.rows[Len(store.rows)]

CycleStored == cyc.caller # "none" /\ \A n \in ClaimedSteps : cyc.steps[n] = "ok"

\* C11: the record a cycle stores holds the download and upload rates
\* divided by 1,000,000 and the ping, each as the nearest value with two
\* decimals, the server name and sponsor, and the location "<name>,
\* <country>"; 93,450,000 bps, 11,200,000 bps, 14.7 ms on NYC1/US/ExampleISP
\* is stored as 93.45, 11.20, 14.70, "NYC1", "NYC1, US", "ExampleISP", and
\* 2,675,000 bps, whose float lies below 2.675, as 2.67.
C11_StoredValuesRounded ==
    CycleStored =>
        /\ Len(store.rows) = cyc.rowsBefore + 1
        /\ 2 * Abs(LastRow.download_mbps * 10000 - cyc.download) <= 10000
        /\ 2 * Abs(LastRow.upload_mbps * 10000 - cyc.upload) <= 10000
        /\ 2 * Abs(LastRow.ping_ms * 10 - cyc.ping) <= 10
        /\ LastRow.server_name = cyc.server_info.name
        /\ LastRow.server_sponsor = cyc.server_info.sponsor
        /\ cyc.download = 93450000 => LastRow.download_mbps = 9345
        /\ cyc.upload = 11200000 => LastRow.upload_mbps = 1120
        /\ cyc.upload = 2675000 => LastRow.upload_mbps = 267
        /\ cyc.ping = 14700 => LastRow.ping_ms = 1470
        /\ (cyc.server_info.name = "NYC1" /\ cyc.server_info.country = "US")
             => LastRow.server_location = "NYC1, US"

C11_Witness ==
    /\ CycleStored
    /\ CycleOver
    /\ cyc.download = 12345678
    /\ LastRow.download_mbps = 1235
    /\ LastRow.server_location = "NYC1, US"

\* C12: stored records are append-only: no step of the program changes or
\* removes a record already stored, or drops the table or its index.
C12_AppendOnly ==
    [][/\ Len(store'.rows) >= Len(store.rows)
       /\ SubSeq(store'.rows, 1, Len(store.rows)) = store.rows
       /\ store.tables \subseteq store'.tables
       /\ store.indexes \subseteq store'.indexes]_vars

C12_Witness ==
    /\ pc = "exited"
    /\ hist.rows0 = 1
    /\ Len(store.rows) = 2
    /\ store.rows[1] = PriorRow
    /\ store.rows[2] # PriorRow
    /\ hist.cyclesDone = 2

\* C13 as stated, in the runs in which no print raises: every started cycle
\* has run to completion when the process is outside run_speedtest, also
\* when an interrupt arrives in flight.
C13_NeverCancelled ==
    (cyc.caller # "none" /\ pc \notin CyclePcs /\ hist.mainExc # "OSError")
      => cyc.done

\* C13 amended: a started cycle runs to completion before the scheduler
\* goes on, and cycles never overlap; a cycle is left unfinished only when
\* the process ends in it, through a handler of __main__: by an interrupt
\* that arrives while run_speedtest is running, or by an OSError raised by
\* a print of run_speedtest outside its try block, in the header (lines
\* 73-75) or in a handler (lines 136, 138, 139); nothing uncommitted is
\* stored.
C13_CancelledOnlyByExit ==
    /\ []((cyc.caller # "none" /\ pc \notin CyclePcs) =>
            \/ cyc.done /\ hist.open = 0
            \/ /\ pc \in HandlerPcs \cup {"exited"}
               /\ hist.open = 1
               /\ \/ /\ hist.interruptedAt \in CyclePcs
                     /\ hist.mainExc = "KeyboardInterrupt"
                     /\ hist.raisedAt = hist.interruptedAt
                  \/ /\ hist.mainExc = "OSError"
                     /\ hist.raisedAt \in {"cycle_header"} \cup CycleHandlerPcs)
    /\ []((pc = "exited" /\ cyc.caller # "none") =>
            (txn = NoTxn /\ Len(store.rows) = hist.rows0 + hist.cyclesOk))
    /\ [](hist.open = (IF InFlight THEN 1 ELSE 0))
    /\ [][(pc' = "cycle_header" /\ pc # "cycle_header")
          => (cyc.caller = "none" \/ cyc.done)]_vars
    /\ [][(pc \in CyclePcs /\ pc' \in LoopPcs) => (pc = "cycle_return" /\ cyc'.done)]_vars

C13_Witness ==
    /\ pc = "exited"
    /\ hist.interruptedAt = "cycle_upload"
    /\ exitStatus = 0
    /\ ~cyc.done
    /\ cyc.caller = "scheduler"
    /\ cyc.steps["download"] = "ok"
    /\ cyc.steps["upload"] = "todo"

\* minutes between the completion of the last cycle and the first call of
\* run_pending after it: main calls it at once after the startup cycle,
\* the loop sleeps a minute after a scheduled one
FirstTick == IF cyc.caller = "startup" THEN 0 ELSE 1

\* C14: the interval runs from the completion of a cycle: the job is armed
\* after the startup cycle has returned, when a cycle returns the job is
\* due a full TEST_INTERVAL later whatever time the cycle took, and the
\* next cycle starts at the first tick at which TEST_INTERVAL minutes or
\* more have passed since that completion, after a startup cycle and after
\* a scheduled one.
C14_TimerArmedOnCompletion ==
    /\ [](pc \in {"announce", "run_pending", "sleep"} =>
            /\ sched.armed
            /\ cyc.done
            /\ sched.remaining + hist.sinceDone = TEST_INTERVAL)
    /\ [][(pc = "cycle_return" /\ pc' # "cycle_return") =>
            /\ \/ cyc'.done
               \/ pc' \in HandlerPcs
            /\ cyc'.done =>
                 /\ hist'.sinceDone = 0
                 /\ cyc.caller = "startup" => (pc' = "arm" /\ ~sched'.armed)
                 /\ cyc.caller = "scheduler" =>
                      (pc' = "sleep" /\ sched'.remaining = TEST_INTERVAL)]_vars
    /\ [][(pc = "arm" /\ pc' = "announce") =>
            /\ sched'.armed
            /\ sched'.remaining = TEST_INTERVAL
            /\ hist.sinceDone = 0]_vars
    /\ [][(pc = "run_pending" /\ pc' = "cycle_header") =>
            /\ cyc.done
            /\ hist.sinceDone >= TEST_INTERVAL
            /\ hist.sinceDone = (IF TEST_INTERVAL > FirstTick THEN TEST_INTERVAL
                                 ELSE FirstTick)]_vars
    /\ [][(pc = "run_pending" /\ pc' \notin {"run_pending", "cycle_header"}) =>
            \/ pc' = "sleep" /\ hist.sinceDone < TEST_INTERVAL
            \/ pc' \in HandlerPcs]_vars

\* the startup cycle and a scheduled cycle have each stored a record, and
\* the scheduler has started the cycle that follows the scheduled one, two
\* minutes after it returned
C14_Witness ==
    /\ pc = "cycle_header"
    /\ cyc.caller = "scheduler"
    /\ hist.rows0 = 0
    /\ hist.cyclesOk = 2
    /\ hist.cyclesDone = 2
    /\ hist.open = 1
    /\ TEST_INTERVAL = 2
    /\ hist.sinceDone = 2

\* after a successful startup, no cycle is running
AwaitingCycle == hist.schemaDone /\ pc \notin CyclePcs

\* C15: after a successful startup, in a run without interrupt whose thread
\* keeps taking steps, whenever no cycle is running a cycle is eventually
\* attempted, whatever failures the earlier cycles had.
C15_AlwaysAnotherCycle == AwaitingCycle ~> (pc = "cycle_header")

\* C16: the connection is opened once and never re-acquired, closed at
\* most once, closed on every termination that follows its opening, and
\* no INSERT or commit is issued on a connection that is not open.
C16_ConnectionClosedOnEveryExit ==
    /\ hist.connects <= 1
    /\ hist.closes <= 1
    /\ db_conn = "conn" => hist.connects = 1
    /\ (/\ pc = "exited"
        /\ db_conn = "conn"
        /\ hist.exitKind # "OSError"
        /\ hist.mainExc # "OSError"
        /\ hist.initFault # "output"
        /\ hist.interrupts < 2) =>
         (connStatus = "closed" /\ hist.closes = 1)
    /\ pc \in {"cycle_insert", "cycle_commit"} =>
         (db_conn = "conn" /\ connStatus # "closed" /\ hist.closes = 0)

\* C17: when the capability gives no complete server metadata but
\* best-server selection, download, upload and latency read succeed and
\* the store is healthy, the cycle still stores one record, the missing
\* fields being null.
C17_MetadataOptional ==
    (/\ CycleOver
     /\ \A n \in MeasurementSteps : cyc.steps[n] = "ok"
     /\ cyc.server_info.keys # FullInfo
     /\ ~hist.writeFailed
     /\ cyc.dbFault = "none"
     /\ cyc.exc # "OSError")
      => /\ Len(store.rows) = cyc.rowsBefore + 1
         /\ "country" \notin cyc.server_info.keys => LastRow.server_location = ""

\* C18: whenever DB_PASSWORD is unset or empty, whatever TEST_INTERVAL
\* holds, the process reports the missing DB_PASSWORD key and exits
\* non-zero before any other startup step fails or takes effect.
C18_MissingPasswordReportedFirst ==
    (/\ env.DB_PASSWORD \in {None, Str(<<>>)}
     /\ pc = "exited"
     /\ hist.interruptedAt = "none"
     /\ hist.exitKind # "OSError")
      => /\ MsgMissingPassword \in logged
         /\ MsgTraceback \notin logged
         /\ hist.exitCause = "config_missing"
         /\ exitStatus # 0
         /\ hist.connects = 0

\* C19: a cycle whose measurement fails issues no database operation: no
\* measurement step and no handler of a failed measurement touches the
\* store, the transaction or the connection, and the INSERT is reached
\* only after capability init, best-server selection, download, upload and
\* latency read have all succeeded.
C19_FailedMeasurementNoDbOperation ==
    /\ [][(/\ \/ pc \in MeasurementPcs
              \/ (pc \in CycleHandlerPcs \cup {"cycle_return"}
                    /\ MeasurementFailed(cyc))
           /\ hist'.interruptedAt = "none")
          => UNCHANGED <<store, txn, connStatus, db_conn>>]_vars
    /\ []((pc \in {"cycle_insert", "cycle_commit", "cycle_written"}
             \/ cyc.steps["insert"] # "todo")
            => \A n \in MeasurementSteps : cyc.steps[n] = "ok")
    /\ [](MeasurementFailed(cyc)
            => /\ cyc.steps["insert"] = "todo"
               /\ cyc.steps["commit"] = "todo"
               /\ cyc.dbFault = "none"
               /\ txn.rows = <<>>
               /\ Len(store.rows) = cyc.rowsBefore)

C19_Witness ==
    /\ CycleOver
    /\ cyc.steps["upload"] = "fail"
    /\ hist.cyclesOk = 1
    /\ hist.cyclesDone = 1
    /\ connStatus = "idle"
    /\ Len(store.rows) = cyc.rowsBefore

====
